---- MODULE Spec2Model ----
(***************************************************************************)
(* A model of spectral_cube/spectral_axis.py: the ctype classifier and    *)
(* resolver, the increment derivative and convert_spectral_axis.           *)
(*                                                                         *)
(* Python strings that the code indexes or measures (ctypes, convention   *)
(* aliases) are sequences of one-character strings, so that len(ctype),   *)
(* ctype[5], ctype[7] and ctype[:4] are computed as the code computes     *)
(* them (Python's index i is index i+1 here).  The astropy convention     *)
(* objects u.doppler_radio, ... are the one-element sequences             *)
(* <<"u.doppler_radio">>, ..., and Python's None is <<"None">>.            *)
(***************************************************************************)
EXTENDS Integers, Sequences, FiniteSets, TLC

VARIABLES heap, last, call

vars == <<heap, last, call>>

----------------------------------------------------------------------------
(* Bounds *)

MaxCtypeLen == 9   \* longest ctype string handed to determine_vconv_from_ctype

----------------------------------------------------------------------------
(* Strings *)

None == <<"None">>

doppler_radio == <<"u.doppler_radio">>
doppler_optical == <<"u.doppler_optical">>
doppler_relativistic == <<"u.doppler_relativistic">>

FREQ == <<"F", "R", "E", "Q">>
WAVE == <<"W", "A", "V", "E">>
VRAD == <<"V", "R", "A", "D">>
VOPT == <<"V", "O", "P", "T">>
VELO == <<"V", "E", "L", "O">>
VREL == <<"V", "R", "E", "L">>
AWAV == <<"A", "W", "A", "V">>
AIR == <<"A", "I", "R">>

s_radio == <<"r", "a", "d", "i", "o">>
s_RADIO == <<"R", "A", "D", "I", "O">>
s_optical == <<"o", "p", "t", "i", "c", "a", "l">>
s_OPTICAL == <<"O", "P", "T", "I", "C", "A", "L">>
s_relativistic == <<"r", "e", "l", "a", "t", "i", "v", "i", "s", "t", "i", "c">>
s_RELATIVE == <<"R", "E", "L", "A", "T", "I", "V", "E">>
s_speed == <<"s", "p", "e", "e", "d">>

\* "{type}-{s1}2{s2}".format(type=..., s1=..., s2=...)
Format(type, s1, s2) == type \o <<"-">> \o s1 \o <<"2">> \o s2

\* Python's s[:n]
Prefix(s, n) == SubSeq(s, 1, IF Len(s) < n THEN Len(s) ELSE n)

----------------------------------------------------------------------------
(* Units and physical types *)

FrequencyUnits == {"Hz", "GHz"}
LengthUnits == {"m", "um"}
SpeedUnits == {"m/s", "km/s"}
Units == FrequencyUnits \cup LengthUnits \cup SpeedUnits

parse_phys_type(unit) ==
    IF unit \in SpeedUnits THEN "speed"
    ELSE IF unit \in FrequencyUnits THEN "frequency"
    ELSE "length"

_parse_velocity_convention(vc) ==
    IF vc \in {doppler_radio, s_radio, s_RADIO, VRAD, <<"F">>, FREQ}
    THEN doppler_radio
    ELSE IF vc \in {doppler_optical, s_optical, s_OPTICAL, VOPT, <<"W">>, WAVE}
    THEN doppler_optical
    ELSE IF vc \in {doppler_relativistic, s_relativistic, s_RELATIVE, VREL,
                    s_speed, <<"V">>, VELO}
    THEN doppler_relativistic
    ELSE None

\* The dictionaries are functions; a missing key is a KeyError at the use.
LINEAR_CTYPES == (doppler_optical :> VOPT) @@ (doppler_radio :> VRAD) @@
                 (doppler_relativistic :> VELO)

LINEAR_CTYPE_CHARS == (doppler_optical :> <<"W">>) @@ (doppler_radio :> <<"F">>) @@
                      (doppler_relativistic :> <<"V">>)

\* ALL_CTYPES['speed'] is the dictionary LINEAR_CTYPES; the code only ever
\* formats the 'frequency' and 'length' entries.
ALL_CTYPES == ("frequency" :> FREQ) @@ ("length" :> WAVE)

CTYPE_CHAR_TO_PHYSICALTYPE ==
    (<<"W">> :> "length") @@ (<<"A">> :> "air wavelength") @@
    (<<"F">> :> "frequency") @@ (<<"V">> :> "speed")

CTYPE_TO_PHYSICALTYPE ==
    (WAVE :> "length") @@ (AIR :> "air wavelength") @@ (AWAV :> "air wavelength") @@
    (FREQ :> "frequency") @@ (VELO :> "speed") @@ (VRAD :> "speed") @@
    (VOPT :> "speed") @@ CTYPE_CHAR_TO_PHYSICALTYPE

PHYSICAL_TYPE_TO_CTYPE ==
    ("length" :> <<"W">>) @@ ("air wavelength" :> <<"A">>) @@
    ("frequency" :> <<"F">>) @@ ("speed" :> <<"V">>)

PHYSICAL_TYPE_TO_CHAR ==
    ("speed" :> <<"V">>) @@ ("frequency" :> <<"F">>) @@ ("length" :> <<"W">>)

WCS_UNIT_DICT == (<<"F">> :> "Hz") @@ (<<"W">> :> "m") @@ (<<"V">> :> "m/s")

PHYS_UNIT_DICT == ("length" :> "m") @@ ("frequency" :> "Hz") @@ ("speed" :> "m/s")

LINEAR_CUNIT_DICT ==
    (VRAD :> "Hz") @@ (VOPT :> "m") @@ (FREQ :> "Hz") @@ (WAVE :> "m") @@
    (VELO :> "m/s") @@ (AWAV :> "m") @@ WCS_UNIT_DICT

----------------------------------------------------------------------------
(* Results of a call: a value, or the exception that ended it *)

Ok(v) == [err |-> "none", val |-> v]
Raise(e) == [err |-> e, val |-> None]

E_CtypeLength == "ValueError: A valid ctype must either have 4 or 8 characters."
E_Convention == "ValueError: A velocity convention must be specified"
E_Key == "KeyError"
E_Index == "IndexError"

----------------------------------------------------------------------------
(* determine_vconv_from_ctype *)

determine_vconv_from_ctype(ctype) ==
    IF Len(ctype) < 5 THEN Ok(_parse_velocity_convention(ctype))
    ELSE IF Len(ctype) = 8 THEN Ok(_parse_velocity_convention(<<ctype[8]>>))
    ELSE Raise(E_CtypeLength)

----------------------------------------------------------------------------
(* determine_ctype_from_vconv *)

\* A faulty variant: the to-letter of a composite tag is read instead of its from-letter
in_physchar_of_to_letter(ctype) ==
    IF Len(ctype) > 4
    THEN IF Len(ctype) < 8 THEN Raise(E_Index) ELSE Ok(<<ctype[8]>>)
    ELSE IF ctype \notin DOMAIN LINEAR_CUNIT_DICT THEN Raise(E_Key)
         ELSE Ok(PHYSICAL_TYPE_TO_CHAR[parse_phys_type(LINEAR_CUNIT_DICT[ctype])])

\* lines 122-127: the letter of the linearly sampled type
in_physchar_of(ctype) ==
    IF Len(ctype) > 4
    THEN IF Len(ctype) < 6 THEN Raise(E_Index) ELSE Ok(<<ctype[6]>>)
    ELSE IF ctype \notin DOMAIN LINEAR_CUNIT_DICT THEN Raise(E_Key)
         ELSE Ok(PHYSICAL_TYPE_TO_CHAR[parse_phys_type(LINEAR_CUNIT_DICT[ctype])])

\* A faulty variant: the input convention is read from the last letter of the tag, as
\* determine_vconv_from_ctype reads it, and a missing convention always fails
determine_ctype_from_vconv_strict(ctype, unit, velocity_convention) ==
    LET pc == in_physchar_of(ctype) IN
    IF pc.err # "none" THEN pc
    ELSE
    LET in_physchar == pc.val IN
    IF parse_phys_type(unit) = "speed"
    THEN IF velocity_convention = None THEN Raise(E_Convention)
         ELSE LET vcin == determine_vconv_from_ctype(ctype).val
                  vcout == _parse_velocity_convention(velocity_convention)
              IN  IF vcout \notin DOMAIN LINEAR_CTYPES THEN Raise(E_Key)
                  ELSE IF vcin = vcout THEN Ok(LINEAR_CTYPES[vcout])
                  ELSE Ok(Format(LINEAR_CTYPES[vcout], in_physchar,
                                 LINEAR_CTYPE_CHARS[vcout]))
    ELSE IF in_physchar \notin DOMAIN CTYPE_TO_PHYSICALTYPE THEN Raise(E_Key)
         ELSE LET in_phystype == CTYPE_TO_PHYSICALTYPE[in_physchar] IN
              IF in_phystype = parse_phys_type(unit)
              THEN Ok(ALL_CTYPES[in_phystype])
              ELSE LET out_physchar == PHYSICAL_TYPE_TO_CTYPE[parse_phys_type(unit)]
                   IN  Ok(Format(ALL_CTYPES[parse_phys_type(unit)], in_physchar,
                                 out_physchar))

determine_ctype_from_vconv(ctype, unit, velocity_convention) ==
    LET pc == in_physchar_of(ctype) IN
    IF pc.err # "none" THEN pc
    ELSE
    LET in_physchar == pc.val IN
    IF parse_phys_type(unit) = "speed"
    THEN IF velocity_convention = None /\ ctype[1] = "V" THEN Ok(ctype)
         ELSE IF velocity_convention = None THEN Raise(E_Convention)
         ELSE LET vcin == _parse_velocity_convention(Prefix(ctype, 4))
                  vcout == _parse_velocity_convention(velocity_convention)
              IN  IF vcout \notin DOMAIN LINEAR_CTYPES THEN Raise(E_Key)
                  ELSE IF vcin = vcout THEN Ok(LINEAR_CTYPES[vcout])
                  ELSE Ok(Format(LINEAR_CTYPES[vcout], in_physchar,
                                 LINEAR_CTYPE_CHARS[vcout]))
    ELSE IF in_physchar \notin DOMAIN CTYPE_TO_PHYSICALTYPE THEN Raise(E_Key)
         ELSE LET in_phystype == CTYPE_TO_PHYSICALTYPE[in_physchar] IN
              IF in_phystype = parse_phys_type(unit)
              THEN Ok(ALL_CTYPES[in_phystype])
              ELSE LET out_physchar == PHYSICAL_TYPE_TO_CTYPE[parse_phys_type(unit)]
                   IN  Ok(Format(ALL_CTYPES[parse_phys_type(unit)], in_physchar,
                                 out_physchar))

----------------------------------------------------------------------------
(* Quantities                                                              *)
(*                                                                         *)
(* A Quantity is a value with a unit.  A floating-point value of the axis *)
(* (a reference value, an increment) is kept as the set of signs it may   *)
(* have: {1} is a positive number, {0} is zero, {-1, 0, 1} a number whose *)
(* sign the signs of its operands do not decide.  Every scaling the code  *)
(* applies is by a factor whose sign is fixed for a physical axis         *)
(* (frequencies, wavelengths and rest values positive, speeds below c),   *)
(* so an increment keeps one sign throughout; only a Doppler velocity     *)
(* obtained from a frequency or wavelength has an undecided sign.  A rest *)
(* value is kept as the number the header stores.                          *)
(***************************************************************************)

Sign == {-1, 0, 1}

Q(value, unit) == [value |-> value, unit |-> unit]

NoneQ == Q(0, "None")

Neg(A) == {-a : a \in A}
Mul(A, B) == {a * b : a \in A, b \in B}

E_UnitConversion == "UnitConversionError"
E_Units == "UnitsError: rest value is not a spectral unit"
E_Attribute == "AttributeError: 'NoneType' object has no attribute 'to'"
E_NonFinite == "division by zero"
E_AirIn == "TypeError: Air wavelength should be converted to vacuum earlier."
E_AirOut == "TypeError: Conversion to air wavelength not supported."
E_Frames == "ValueError: Invalid in/out frames"

\* Quantity.to(unit, equivalencies) of an axis value: equiv is "none",
\* "spectral" (u.spectral()) or "doppler" (u.spectral() plus a Doppler
\* equivalency at a rest value).
to(q, unit, equiv) ==
    LET from == parse_phys_type(q.unit)
        into == parse_phys_type(unit)
    IN  IF from = into THEN Ok(Q(q.value, unit))
        ELSE IF "speed" \notin {from, into}
        THEN IF equiv = "none" THEN Raise(E_UnitConversion)
             ELSE IF 0 \in q.value THEN Raise(E_NonFinite)
             ELSE Ok(Q(q.value, unit))
        ELSE IF equiv # "doppler" THEN Raise(E_UnitConversion)
        ELSE IF into = "speed" THEN Ok(Q(Sign, unit))
        ELSE Ok(Q({1}, unit))

\* rest.to(unit, u.spectral()) of a rest value, for a frequency or length unit
rest_to(rest, unit) ==
    IF rest = NoneQ THEN Raise(E_Attribute)
    ELSE IF parse_phys_type(rest.unit) = "speed" THEN Raise(E_UnitConversion)
    ELSE Ok(Q({1}, unit))

----------------------------------------------------------------------------
(* cdelt_derivative *)

cdelt_derivative(crval, cdelt, intype, outtype, linear, rest) ==
    IF intype = outtype THEN Ok(cdelt)
    ELSE IF {outtype, intype} = {"length", "frequency"}
    THEN \* -c / crval**2 * cdelt
         IF 0 \in crval.value THEN Raise(E_NonFinite)
         ELSE Ok(Q(Neg(cdelt.value), PHYS_UNIT_DICT[outtype]))
    ELSE IF outtype \in {"frequency", "length"} /\ intype = "speed"
    THEN LET r == rest_to(rest, PHYS_UNIT_DICT[outtype])
             \* linear: cdelt * rest / c
             \* else: cdelt * c * rest / ((c + crval) * (c**2 - crval**2)**0.5)
             ratio == Mul(cdelt.value, r.val.value)
         IN  IF r.err # "none" THEN r
             ELSE IF outtype = "frequency"
             THEN Ok(Q(Neg(ratio), PHYS_UNIT_DICT[outtype]))
             ELSE Ok(Q(ratio, PHYS_UNIT_DICT[outtype]))
    ELSE IF outtype = "speed" /\ intype \in {"frequency", "length"}
    THEN LET r == IF linear THEN rest_to(rest, PHYS_UNIT_DICT[intype])
                  ELSE rest_to(rest, crval.unit)
             \* linear: cdelt * c / rest
             \* else: 4 * c * crval * rest**2 * cdelt / (crval**2 + rest**2)**2
             ratio == IF linear THEN Mul(cdelt.value, r.val.value)
                      ELSE Mul(Mul(crval.value, Mul(r.val.value, r.val.value)),
                               cdelt.value)
         IN  IF r.err # "none" THEN r
             ELSE IF intype = "frequency"
             THEN Ok(Q(Neg(ratio), PHYS_UNIT_DICT[outtype]))
             ELSE Ok(Q(ratio, PHYS_UNIT_DICT[outtype]))
    ELSE IF intype = "air wavelength" THEN Raise(E_AirIn)
    ELSE IF outtype = "air wavelength" THEN Raise(E_AirOut)
    ELSE Raise(E_Frames)

----------------------------------------------------------------------------
(* Air to vacuum: both factors are positive at every wavelength the       *)
(* dispersion formula is used for.                                         *)

air_to_vac(wavelength) == Q(Mul({1}, wavelength.value), wavelength.unit)

air_to_vac_deriv(wavelength) == {1}

----------------------------------------------------------------------------
(* The axis descriptor (astropy's WCS object, its spectral axis)          *)
(*                                                                         *)
(* restfrq and restwav are wcslib's numbers: 0 is "not set".  cd is the   *)
(* spectral diagonal of the CD matrix when the header has one (has_cd),   *)
(* cdelt the increment otherwise (PC is the identity).  other stands for  *)
(* the celestial axes and the rest of the header.                          *)
(***************************************************************************)

Descriptor(crval, incr, has_cd, cunit, ctype, restfrq, restwav) ==
    [crval |-> crval,
     cdelt |-> IF has_cd THEN {1} ELSE incr,
     cd |-> IF has_cd THEN incr ELSE {0},
     has_cd |-> has_cd,
     cunit |-> cunit, ctype |-> ctype,
     restfrq |-> restfrq, restwav |-> restwav,
     other |-> "RA---SIN,DEC--SIN"]

\* mywcs.pixel_scale_matrix[mywcs.wcs.spec, mywcs.wcs.spec]
pixel_scale(w) == IF w.has_cd THEN w.cd ELSE w.cdelt

get_rest_value_from_wcs(w) ==
    IF w.restfrq # 0 THEN Q(w.restfrq, "Hz")
    ELSE IF w.restwav # 0 THEN Q(w.restwav, "m")
    ELSE NoneQ

\* A fresh object identity: allocation never returns a live object.
NewId(h) == CHOOSE i \in 1..(Cardinality(DOMAIN h) + 1) : i \notin DOMAIN h /\
                \A j \in 1..(Cardinality(DOMAIN h) + 1) : j \notin DOMAIN h => i <= j

\* mywcs.deepcopy(): a new object with equal fields
deepcopy(h, id) == (NewId(h) :> h[id]) @@ h

----------------------------------------------------------------------------
(* convert_spectral_axis                                                   *)
(*                                                                         *)
(* A call's outcome: the exception (or "none"), the heap after the call   *)
(* and the identity of the returned descriptor (0 when it raised).         *)
(***************************************************************************)

E_RestToSpeed == "ValueError: If converting from wavelength/frequency to speed, a reference wavelength/frequency is required."
E_RestFromSpeed == "ValueError: If converting from speed to wavelength/frequency, a reference wavelength/frequency is required."
E_AirTarget == "NotImplementedError: Conversion to air wavelength is not supported."
E_UnitMismatch == "ValueError: Conversion failed: the units of cdelt and crval don't match."
E_ZeroCdelt == "ValueError: Conversion failed: the output CDELT would be 0."
E_RestUnit == "ValueError: Rest Value was specified, but not in frequency or length units"

Returned(h, id) == [err |-> "none", heap |-> h, ret |-> id]
Raised(e, h) == [err |-> e, heap |-> h, ret |-> 0]

\* lines 267 and 272: the linear ctype of a tag
lin_ctype_of(ctype) == IF Len(ctype) > 4 THEN <<ctype[8]>> ELSE Prefix(ctype, 4)

\* A faulty variant: a conversion to a speed does not fall back on the axis's rest value
resolve_rest_no_fallback(inunit, outunit, rest_value, wcs_rv) ==
    IF parse_phys_type(outunit) = "speed"
    THEN IF rest_value = NoneQ
         THEN [err |-> E_RestToSpeed, ref |-> NoneQ, rest |-> rest_value]
         ELSE [err |-> rest_to(rest_value, "Hz").err, ref |-> Q(rest_value.value, "Hz"),
               rest |-> rest_value]
    ELSE IF parse_phys_type(inunit) = "speed"
    THEN IF rest_value # NoneQ
         THEN [err |-> "none", ref |-> rest_value, rest |-> rest_value]
         ELSE IF wcs_rv # NoneQ
         THEN [err |-> "none", ref |-> wcs_rv, rest |-> rest_value]
         ELSE [err |-> E_RestFromSpeed, ref |-> NoneQ, rest |-> rest_value]
    ELSE [err |-> "none", ref |-> NoneQ, rest |-> rest_value]

\* lines 243-260: the rest value the conversion is anchored at (ref), and
\* the rest_value that line 247 may rebind (rest)
resolve_rest(inunit, outunit, rest_value, wcs_rv) ==
    IF parse_phys_type(outunit) = "speed"
    THEN LET rv == IF rest_value = NoneQ THEN wcs_rv ELSE rest_value IN
         IF rv = NoneQ THEN [err |-> E_RestToSpeed, ref |-> NoneQ, rest |-> rv]
         ELSE [err |-> rest_to(rv, "Hz").err, ref |-> Q(rv.value, "Hz"), rest |-> rv]
    ELSE IF parse_phys_type(inunit) = "speed"
    THEN IF rest_value # NoneQ
         THEN [err |-> "none", ref |-> rest_value, rest |-> rest_value]
         ELSE IF wcs_rv # NoneQ
         THEN [err |-> "none", ref |-> wcs_rv, rest |-> rest_value]
         ELSE [err |-> E_RestFromSpeed, ref |-> NoneQ, rest |-> rest_value]
    ELSE [err |-> "none", ref |-> NoneQ, rest |-> rest_value]

\* crval.to(unit, u.spectral() + vcequiv(ref_value)) when both are given,
\* crval.to(unit, u.spectral()) otherwise; a Doppler equivalency checks
\* that its rest value is a spectral unit.
to_doppler(q, unit, vcequiv, ref_value) ==
    IF vcequiv # None /\ ref_value # NoneQ
    THEN IF parse_phys_type(ref_value.unit) = "speed" THEN Raise(E_Units)
         ELSE to(q, unit, "doppler")
    ELSE to(q, unit, "spectral")

\* A faulty variant: the result is written into the descriptor that was passed
commit_in_place(h, mywcs, cdelt_out, crval_out, out_ctype, rest_value) ==
    LET copy == h[mywcs]
        scaled == IF copy.has_cd THEN [copy EXCEPT !.cd = cdelt_out.value]
                  ELSE [copy EXCEPT !.cdelt = cdelt_out.value]
        axis == [scaled EXCEPT !.cunit = cdelt_out.unit,
                               !.crval = crval_out.value,
                               !.ctype = out_ctype]
    IN  Returned((NewId(h) :> axis) @@ [h EXCEPT ![mywcs] = axis], NewId(h))

\* lines 353-372: the copy that is returned
commit(h, mywcs, cdelt_out, crval_out, out_ctype, rest_value) ==
    LET id == NewId(h)
        copy == h[mywcs]
        scaled == IF copy.has_cd THEN [copy EXCEPT !.cd = cdelt_out.value]
                  ELSE [copy EXCEPT !.cdelt = cdelt_out.value]
        axis == [scaled EXCEPT !.cunit = cdelt_out.unit,
                               !.crval = crval_out.value,
                               !.ctype = out_ctype]
    IN  IF rest_value = NoneQ THEN Returned((id :> axis) @@ h, id)
        ELSE IF parse_phys_type(rest_value.unit) = "frequency"
        THEN Returned((id :> [axis EXCEPT !.restfrq = rest_value.value]) @@ h, id)
        ELSE IF parse_phys_type(rest_value.unit) = "length"
        THEN Returned((id :> [axis EXCEPT !.restwav = rest_value.value]) @@ h, id)
        ELSE Raised(E_RestUnit, h)

\* lines 241-372, on the descriptor mywcs is bound to at line 241
convert_steps(h, mywcs, inunit, wcs_rv, outunit, out_ctype, rest_value0) ==
    LET in_spec_ctype0 == h[mywcs].ctype
        rr == resolve_rest(inunit, outunit, rest_value0, wcs_rv)
        ref_value == rr.ref
        rest_value == rr.rest
        lin_ctype == lin_ctype_of(in_spec_ctype0)
        lin_cunit == IF lin_ctype \in DOMAIN LINEAR_CUNIT_DICT
                     THEN LINEAR_CUNIT_DICT[lin_ctype] ELSE h[mywcs].cunit
        in_vcequiv == _parse_velocity_convention(Prefix(in_spec_ctype0, 4))
        out_ctype_conv == lin_ctype_of(out_ctype)
        out_lin_cunit == IF out_ctype_conv \in DOMAIN LINEAR_CUNIT_DICT
                         THEN LINEAR_CUNIT_DICT[out_ctype_conv] ELSE outunit
        out_vcequiv == _parse_velocity_convention(out_ctype_conv)
        crval_in0 == Q(h[mywcs].crval, inunit)
        cdelt_in0 == Q(pixel_scale(h[mywcs]), inunit)
        air == in_spec_ctype0 = AWAV
        cdelt_in == IF air THEN Q(Mul(air_to_vac_deriv(crval_in0), cdelt_in0.value),
                                  inunit)
                    ELSE cdelt_in0
        crval_in == IF air THEN air_to_vac(crval_in0) ELSE crval_in0
        in_spec_ctype == IF air THEN WAVE ELSE in_spec_ctype0
        \* 1. input to input, linear
        crval_lin1 == to_doppler(crval_in, lin_cunit, in_vcequiv, ref_value)
        cdelt_lin1 == cdelt_derivative(crval_in, cdelt_in,
                          CTYPE_TO_PHYSICALTYPE[Prefix(in_spec_ctype, 4)],
                          parse_phys_type(lin_cunit), TRUE, ref_value)
        \* 2. input, linear to output, linear
        crval_lin2 == IF ref_value = NoneQ
                      THEN to(crval_lin1.val, out_lin_cunit, "spectral")
                      ELSE to_doppler(crval_lin1.val, out_lin_cunit,
                                      doppler_relativistic, ref_value)
        linear_middle == in_vcequiv = out_vcequiv
        cdelt_lin2 == cdelt_derivative(crval_lin1.val, cdelt_lin1.val,
                          parse_phys_type(lin_cunit),
                          CTYPE_TO_PHYSICALTYPE[out_ctype_conv],
                          linear_middle, ref_value)
        \* 3. output, linear to output
        last_step == out_vcequiv # None /\ ref_value # NoneQ
        crval_out == IF last_step
                     THEN to_doppler(crval_lin2.val, outunit, out_vcequiv, ref_value)
                     ELSE to(crval_lin2.val, outunit, "spectral")
        cdelt_mid == cdelt_derivative(crval_lin2.val, cdelt_lin2.val,
                          CTYPE_TO_PHYSICALTYPE[out_ctype_conv],
                          parse_phys_type(outunit), TRUE, ref_value)
        cdelt_out == IF last_step
                     THEN IF cdelt_mid.err # "none" THEN cdelt_mid
                          ELSE to(cdelt_mid.val, outunit, "none")
                     ELSE to(cdelt_lin2.val, outunit, "spectral")
    IN  IF rr.err # "none" THEN Raised(rr.err, h)
        ELSE IF out_ctype_conv \notin DOMAIN CTYPE_TO_PHYSICALTYPE
        THEN Raised(E_Key, h)
        ELSE IF CTYPE_TO_PHYSICALTYPE[out_ctype_conv] = "air wavelength"
        THEN Raised(E_AirTarget, h)
        ELSE IF crval_lin1.err # "none" THEN Raised(crval_lin1.err, h)
        ELSE IF Prefix(in_spec_ctype, 4) \notin DOMAIN CTYPE_TO_PHYSICALTYPE
        THEN Raised(E_Key, h)
        ELSE IF cdelt_lin1.err # "none" THEN Raised(cdelt_lin1.err, h)
        ELSE IF crval_lin2.err # "none" THEN Raised(crval_lin2.err, h)
        ELSE IF cdelt_lin2.err # "none" THEN Raised(cdelt_lin2.err, h)
        ELSE IF crval_out.err # "none" THEN Raised(crval_out.err, h)
        ELSE IF cdelt_out.err # "none" THEN Raised(cdelt_out.err, h)
        ELSE IF crval_out.val.unit # cdelt_out.val.unit THEN Raised(E_UnitMismatch, h)
        ELSE IF cdelt_out.val.value = {0} THEN Raised(E_ZeroCdelt, h)
        ELSE commit(h, mywcs, cdelt_out.val, crval_out.val, out_ctype, rest_value)

\* A faulty variant: the copy is relabelled with the requested unit and ctype, as in
\* the lines the code has commented out
no_reference_change_relabel(h, mywcs, outunit, out_ctype, rest_value) ==
    Returned((NewId(h) :> [h[mywcs] EXCEPT !.cunit = outunit, !.ctype = out_ctype])
             @@ h, NewId(h))

\* lines 227-232: speed to speed with no rest value on the axis
no_reference_change(h, mywcs, outunit, out_ctype, rest_value) ==
    Returned(deepcopy(h, mywcs), NewId(h))

RECURSIVE convert_spectral_axis(_, _, _, _, _)

convert_spectral_axis(h, mywcs, outunit, out_ctype, rest_value) ==
    LET wcs_rv == get_rest_value_from_wcs(h[mywcs])
        inunit == h[mywcs].cunit
        speeds == parse_phys_type(inunit) = "speed" /\ parse_phys_type(outunit) = "speed"
    IN  IF speeds /\ wcs_rv # NoneQ
        THEN LET r == convert_spectral_axis(h, mywcs, wcs_rv.unit,
                          ALL_CTYPES[parse_phys_type(wcs_rv.unit)], wcs_rv)
             IN  IF r.err # "none" THEN r
                 ELSE convert_steps(r.heap, r.ret, r.heap[r.ret].cunit, wcs_rv,
                                    outunit, out_ctype, rest_value)
        ELSE IF speeds /\ wcs_rv = NoneQ
        THEN no_reference_change(h, mywcs, outunit, out_ctype, rest_value)
        ELSE convert_steps(h, mywcs, inunit, wcs_rv, outunit, out_ctype,
                           rest_value)

----------------------------------------------------------------------------
(* The inputs *)

LinearTags == {FREQ, WAVE, VRAD, VOPT, VELO, AWAV}
Letters == {<<"F">>, <<"W">>, <<"V">>, <<"A">>}
CompositeTags == {Format(root, s1, s2) : root \in LinearTags, s1 \in Letters,
                                         s2 \in Letters}

VOPT_F2W == Format(VOPT, <<"F">>, <<"W">>)

\* An axis as a header describes it: a tag with a unit of its type, a
\* positive frequency or wavelength or a speed of either sign, any
\* increment, at most one rest value.
AxisKinds == {<<FREQ, "Hz">>, <<WAVE, "m">>, <<AWAV, "m">>, <<VRAD, "m/s">>,
              <<VOPT, "km/s">>, <<VELO, "m/s">>, <<VOPT_F2W, "m/s">>}

InitDescriptors ==
    {Descriptor({crval}, {incr}, has_cd, kind[2], kind[1], rest[1], rest[2]) :
        crval \in Sign, incr \in Sign, has_cd \in BOOLEAN, kind \in AxisKinds,
        rest \in {<<0, 0>>, <<1, 0>>, <<0, 1>>}}

ValidAxis(w) == parse_phys_type(w.cunit) # "speed" => w.crval = {1}

\* The target of a conversion: an output ctype and an output unit of its type
Targets == {<<FREQ, "Hz">>, <<WAVE, "m">>, <<AWAV, "m">>, <<VRAD, "m/s">>,
            <<VRAD, "km/s">>, <<VOPT, "m/s">>, <<VELO, "km/s">>,
            <<VOPT_F2W, "m/s">>}

RestArgs == {NoneQ, Q(1, "Hz"), Q(1, "m"), Q(1, "m/s")}

NoLast == [input |-> 0, pre |-> Descriptor({1}, {1}, FALSE, "Hz", FREQ, 0, 0),
           outunit |-> "None", out_ctype |-> None, rest_value |-> NoneQ,
           err |-> "none", ret |-> 0]

NoCall == [fn |-> "none", done |-> FALSE]

----------------------------------------------------------------------------
(* The converter as a state machine: the caller converts the descriptor   *)
(* it holds and goes on with the one returned (with the same one after an *)
(* exception).  Object identities are names: at each call the descriptor  *)
(* the caller holds is object 1, and whatever else was alive (the input   *)
(* of the call before, the intermediate of the rest-frame normalization)  *)
(* has no reference left and is collected.  After a call the heap holds   *)
(* its input and, when it returned, its result.                            *)

Init ==
    /\ \E w \in InitDescriptors : ValidAxis(w) /\ heap = (1 :> w)
    /\ last = NoLast
    /\ call = NoCall

\* the descriptor the caller goes on with
Current == IF last.ret # 0 THEN last.ret ELSE 1

Convert(outunit, out_ctype, rest_value) ==
    LET mywcs == 1
        h == (mywcs :> heap[Current])
        r == convert_spectral_axis(h, mywcs, outunit, out_ctype, rest_value)
        live == {mywcs} \cup (IF r.err = "none" THEN {r.ret} ELSE {})
    IN  /\ heap' = [id \in live |-> r.heap[id]]
        /\ last' = [input |-> mywcs, pre |-> h[mywcs], outunit |-> outunit,
                    out_ctype |-> out_ctype, rest_value |-> rest_value,
                    err |-> r.err, ret |-> r.ret]
        /\ UNCHANGED call

Next ==
    \E target \in Targets, rest_value \in RestArgs :
        Convert(target[2], target[1], rest_value)

Spec == Init /\ [][Next]_vars

----------------------------------------------------------------------------
(* Claims about convert_spectral_axis (specification Spec) *)

Called == last.input # 0
Returns == Called /\ last.err = "none"
InSpeed == parse_phys_type(last.pre.cunit) = "speed"
OutSpeed == parse_phys_type(last.outunit) = "speed"
StoredRest == last.pre.restfrq # 0 \/ last.pre.restwav # 0
BothRests(w) == w.restfrq # 0 /\ w.restwav # 0

\* C3: in every descriptor convert_spectral_axis returns, after any sequence
\* of conversions starting from a descriptor with at most one of
\* rest_frequency and rest_wavelength set, at most one of the two is set.
C3_AtMostOneRest == \A id \in DOMAIN heap : ~BothRests(heap[id])

\* C4: on every path through convert_spectral_axis, the speed-to-speed paths
\* included, a call on an axis whose increment is zero ends in an error, and
\* no call returns a descriptor whose spectral increment is zero.
C4_NoZeroIncrementReturned ==
    /\ Called /\ pixel_scale(last.pre) = {0} => last.err # "none"
    /\ Returns => pixel_scale(heap[last.ret]) # {0}

\* C5: convert_spectral_axis never mutates the descriptor it is given: after
\* every call, returned or failed, every field of the input descriptor equals
\* its value before the call, and a returned descriptor is a distinct object.
C5_InputNotMutated ==
    Called =>
        /\ last.input \in DOMAIN heap
        /\ heap[last.input] = last.pre
        /\ last.err = "none" => last.ret \in DOMAIN heap /\ last.ret # last.input

\* C5's case: the rest-frame normalization ran and the call returned a
\* descriptor that differs from its input.
C5_Witness ==
    /\ Returns /\ InSpeed /\ OutSpeed /\ StoredRest
    /\ heap[last.ret] # last.pre
    /\ heap[last.ret].ctype # last.pre.ctype

MissingRestValueError == {E_RestToSpeed, E_RestFromSpeed}

\* C6: when exactly one of the input unit and the output unit is a speed and
\* no rest value is available from the call argument or the axis's stored
\* rest frequency / rest wavelength, the call fails with the missing-rest-value
\* error and returns no descriptor; when a rest value is available from either
\* source, that error is not raised.
C6_MissingRestValue ==
    Called =>
        LET available == last.rest_value # NoneQ \/ StoredRest IN
        /\ (InSpeed # OutSpeed) /\ ~available =>
               last.err \in MissingRestValueError /\ last.ret = 0
        /\ available => last.err \notin MissingRestValueError

\* C6's case: a conversion from a speed to a frequency or length, with no
\* rest value anywhere, failed with the error.
C6_Witness ==
    /\ Called /\ InSpeed /\ ~OutSpeed /\ ~StoredRest /\ last.rest_value = NoneQ
    /\ last.err = E_RestFromSpeed

\* C9: when both units are speeds and the axis stores neither rest value, the
\* call returns a copy whose reference value, increment, unit, ctype and rest
\* fields equal the input's, whatever output unit, output ctype and rest
\* value were passed.
C9_NoOpCopy ==
    Called /\ InSpeed /\ OutSpeed /\ ~StoredRest =>
        /\ last.err = "none"
        /\ LET w == heap[last.ret] IN
           /\ w.crval = last.pre.crval
           /\ pixel_scale(w) = pixel_scale(last.pre)
           /\ w.cunit = last.pre.cunit
           /\ w.ctype = last.pre.ctype
           /\ w.restfrq = 0 /\ w.restwav = 0
           /\ w = last.pre

\* C9's case: a speed-to-speed call on an axis without a rest value, asking
\* for another unit and another ctype and passing a rest value, returned.
C9_Witness ==
    /\ Returns /\ InSpeed /\ OutSpeed /\ ~StoredRest
    /\ last.rest_value # NoneQ
    /\ last.outunit # last.pre.cunit
    /\ last.out_ctype # last.pre.ctype

----------------------------------------------------------------------------
(* The ctype resolver as a specification: the inputs of one call are      *)
(* drawn, then determine_ctype_from_vconv is applied to them.              *)

Idle == heap = (1 :> NoLast.pre) /\ last = NoLast

VELO_ == <<"V", "E", "L", "O", "-">>

ResolveCtypes == LinearTags \cup CompositeTags \cup {AIR, VELO_}

Conventions == {doppler_radio, doppler_optical, doppler_relativistic}

ConventionArgs == {None, <<"x">>, s_radio, s_optical, s_relativistic} \cup Conventions

InitResolve ==
    /\ Idle
    /\ \E ctype \in ResolveCtypes, unit \in Units, vc \in ConventionArgs :
           call = [fn |-> "determine_ctype_from_vconv", done |-> FALSE,
                   ctype |-> ctype, unit |-> unit, velocity_convention |-> vc,
                   result |-> Raise("pending")]

Resolve ==
    /\ ~call.done
    /\ call' = [call EXCEPT !.done = TRUE,
                   !.result = determine_ctype_from_vconv(call.ctype, call.unit,
                                                         call.velocity_convention)]
    /\ UNCHANGED <<heap, last>>

NextResolve == Resolve

SpecResolve == InitResolve /\ [][NextResolve]_vars

----------------------------------------------------------------------------
(* Claims about determine_ctype_from_vconv (specification SpecResolve) *)

Resolved == call.done
TargetType == IF call.unit \in SpeedUnits THEN "speed"
              ELSE IF call.unit \in FrequencyUnits THEN "frequency" ELSE "length"
ClaimedTags == LinearTags \cup CompositeTags
Root(ctype) == SubSeq(ctype, 1, 4)

\* the physical type a 4-character tag is sampled linearly in
LinearTypeOfTag == (FREQ :> "frequency") @@ (VRAD :> "frequency") @@
                   (WAVE :> "length") @@ (VOPT :> "length") @@ (AWAV :> "length") @@
                   (VELO :> "speed")
TypeOfLetter == ("F" :> "frequency") @@ ("W" :> "length") @@ ("V" :> "speed") @@
                ("A" :> "air wavelength")
LetterOfType == ("frequency" :> "F") @@ ("length" :> "W") @@ ("speed" :> "V")
PlainTagOfType == ("frequency" :> FREQ) @@ ("length" :> WAVE)

\* the linearly sampled type of a tag and its letter
SampledType(ctype) == IF Len(ctype) = 8 THEN TypeOfLetter[ctype[6]]
                      ELSE LinearTypeOfTag[ctype]
SampledLetter(ctype) == IF Len(ctype) = 8 THEN ctype[6]
                        ELSE LetterOfType[LinearTypeOfTag[ctype]]

\* C1: for a current ctype that is one of the six 4-character tags or an
\* 8-character composite tag and a target unit of frequency or length,
\* determine_ctype_from_vconv returns the plain tag of the target type when the
\* linearly sampled type of the current ctype equals the target type, and the
\* composite tag <FREQ|WAVE>-<in-letter>2<out-letter> otherwise.
C1_LinearOrComposite ==
    Resolved /\ call.ctype \in ClaimedTags /\ TargetType # "speed" =>
        call.result =
            IF SampledType(call.ctype) = TargetType
            THEN Ok(PlainTagOfType[TargetType])
            ELSE Ok(PlainTagOfType[TargetType] \o
                    <<"-", SampledLetter(call.ctype), "2", LetterOfType[TargetType]>>)

\* C1's case: ('VELO-F2V', length) gave 'WAVE-F2W'.
C1_Witness ==
    /\ Resolved /\ call.ctype = <<"V", "E", "L", "O", "-", "F", "2", "V">>
    /\ TargetType = "length"
    /\ call.result = Ok(<<"W", "A", "V", "E", "-", "F", "2", "W">>)

VelocityTags == {VRAD, VOPT, VELO}
ConventionOfRoot == (FREQ :> "radio") @@ (VRAD :> "radio") @@ (WAVE :> "optical") @@
                    (VOPT :> "optical") @@ (VELO :> "relativistic") @@ (AWAV :> "none")
ConventionOfArg == (doppler_radio :> "radio") @@ (s_radio :> "radio") @@
                   (doppler_optical :> "optical") @@ (s_optical :> "optical") @@
                   (doppler_relativistic :> "relativistic") @@
                   (s_relativistic :> "relativistic")
VelocityTagOf == ("radio" :> VRAD) @@ ("optical" :> VOPT) @@ ("relativistic" :> VELO)
LetterOfConvention == ("radio" :> "F") @@ ("optical" :> "W") @@ ("relativistic" :> "V")

\* C2: for a target unit that is a speed, with no velocity convention the
\* current ctype is returned unchanged if it is a velocity tag and the call
\* fails with the missing-convention error otherwise; with a convention, the
\* plain velocity tag is returned when the input and output conventions are
\* equal and the composite tag <target-root>-<in-letter>2<out-letter> when
\* they differ.
C2_SpeedTarget ==
    Resolved /\ call.ctype \in ClaimedTags /\ TargetType = "speed" =>
        LET vc == call.velocity_convention IN
        /\ vc = None =>
               call.result = IF Root(call.ctype) \in VelocityTags
                             THEN Ok(call.ctype) ELSE Raise(E_Convention)
        /\ vc \in DOMAIN ConventionOfArg =>
               LET out == ConventionOfArg[vc] IN
               call.result =
                   IF ConventionOfRoot[Root(call.ctype)] = out
                   THEN Ok(VelocityTagOf[out])
                   ELSE Ok(VelocityTagOf[out] \o
                           <<"-", SampledLetter(call.ctype), "2", LetterOfConvention[out]>>)

\* C2's case: FREQ with the optical convention gave 'VOPT-F2W'.
C2_Witness ==
    /\ Resolved /\ call.ctype = FREQ /\ TargetType = "speed"
    /\ call.velocity_convention = doppler_optical
    /\ call.result = Ok(<<"V", "O", "P", "T", "-", "F", "2", "W">>)

\* a composite tag whose to-letter is that of its root and differs from its
\* from-letter
LetterOfRoot == (FREQ :> "F") @@ (VRAD :> "F") @@ (WAVE :> "W") @@ (VOPT :> "W") @@
                (VELO :> "V") @@ (AWAV :> "A")
ValidCtype(ctype) ==
    \/ ctype \in LinearTags
    \/ /\ ctype \in CompositeTags
       /\ ctype[8] = LetterOfRoot[Root(ctype)]
       /\ ctype[6] # ctype[8]

\* C10: for every valid current ctype, target unit and velocity convention, a
\* composite tag returned by determine_ctype_from_vconv has a from-letter
\* different from its to-letter.
C10_NoDegenerateComposite ==
    Resolved /\ ValidCtype(call.ctype) /\ call.result.err = "none"
             /\ Len(call.result.val) = 8 =>
        call.result.val[6] # call.result.val[8]

----------------------------------------------------------------------------
(* determine_vconv_from_ctype as a specification *)

Pad == [i \in 1..MaxCtypeLen |-> "X"]

CtypeStrings ==
    {Prefix(tag \o Pad, n) :
        tag \in LinearTags \cup CompositeTags \cup {AIR, VREL, <<"W">>, <<"V">>, <<"A">>},
        n \in 0..MaxCtypeLen}

InitVconv ==
    /\ Idle
    /\ \E ctype \in CtypeStrings :
           call = [fn |-> "determine_vconv_from_ctype", done |-> FALSE,
                   ctype |-> ctype, result |-> Raise("pending")]

Vconv ==
    /\ ~call.done
    /\ call' = [call EXCEPT !.done = TRUE,
                            !.result = determine_vconv_from_ctype(call.ctype)]
    /\ UNCHANGED <<heap, last>>

NextVconv == Vconv

SpecVconv == InitVconv /\ [][NextVconv]_vars

\* C7: for every ctype string whose length is neither 4 nor 8,
\* determine_vconv_from_ctype fails with the invalid-length error instead of
\* returning a Doppler convention or absent.
C7_InvalidLengthFails ==
    call.done /\ Len(call.ctype) \notin {4, 8} => call.result.err = E_CtypeLength

----------------------------------------------------------------------------
(* cdelt_derivative as a specification *)

PhysicalTypes == {"length", "frequency", "speed", "air wavelength"}

UnitOfType(type) == IF type = "air wavelength" THEN "m" ELSE PHYS_UNIT_DICT[type]

InitDeriv ==
    /\ Idle
    /\ \E intype \in PhysicalTypes, outtype \in PhysicalTypes, crval \in Sign,
          cdelt \in Sign, linear \in BOOLEAN, rest \in {NoneQ, Q(1, "Hz"), Q(1, "m")} :
           /\ intype # "speed" => crval = 1
           /\ call = [fn |-> "cdelt_derivative", done |-> FALSE,
                      crval |-> Q({crval}, UnitOfType(intype)),
                      cdelt |-> Q({cdelt}, UnitOfType(intype)),
                      intype |-> intype, outtype |-> outtype, linear |-> linear,
                      rest |-> rest, result |-> Raise("pending")]

Deriv ==
    /\ ~call.done
    /\ call' = [call EXCEPT !.done = TRUE,
                   !.result = cdelt_derivative(call.crval, call.cdelt, call.intype,
                                               call.outtype, call.linear, call.rest)]
    /\ UNCHANGED <<heap, last>>

NextDeriv == Deriv

SpecDeriv == InitDeriv /\ [][NextDeriv]_vars

\* C8: cdelt_derivative fails for every (in_type, out_type) pair in which
\* either side is 'air wavelength', the pair of two 'air wavelength' included;
\* it never returns an increment for such a pair.
C8_AirWavelengthFails ==
    call.done /\ "air wavelength" \in {call.intype, call.outtype} =>
        call.result.err # "none"

====
